---- MODULE Spec2Model ----
(***************************************************************************)
(* Community fridge probe firmware: the cooperative main loop (main.c),    *)
(* the application logic (app_logic.c: ring buffer, rolling average,       *)
(* status priority, sample and telemetry timers), the blocking door        *)
(* debounce (door_sensor.c), the validity check (sensors.c) and the LED    *)
(* pattern state machine (led_status.c).                                   *)
(*                                                                         *)
(* Representation notes.                                                   *)
(*  - Millisecond timestamps are uint32_t in the source.  A uint32 value   *)
(*    is written here as its two's-complement residue: 2^32 - n is written *)
(*    -n, so the counter runs ..., -20, -10, 0, 10, ... across its wrap.   *)
(*    U32SubGe computes the source's unsigned `(a - b) >= d` on that form. *)
(*  - Temperatures are whole degrees.  average_temp is held in units of    *)
(*    1/AvgUnit degree, AvgUnit a common multiple of every possible sample *)
(*    count, so that sum / count is exact.                                 *)
(*  - Code execution takes no time: the clock moves only in sleep_ms.      *)
(***************************************************************************)
EXTENDS Integers, Sequences, FiniteSets, TLC

\* ------------------------------------------------------------- constants

\* config.h
SAMPLE_INTERVAL_MS == 2000
TELEMETRY_INTERVAL_MS == 5000
TEMP_OK_MAX_C == 7
TEMP_VALID_MIN_C == -40
TEMP_VALID_MAX_C == 125
DEBOUNCE_SAMPLES == 5
DEBOUNCE_INTERVAL_MS == 10
LED_SLOW_BLINK_MS == 1000
LED_FAST_BLINK_MS == 200
LED_ERROR_FLASH_MS == 100
LED_ERROR_PAUSE_MS == 700

\* main.c: sleep_ms(2000) before initialisation, sleep_ms(10) per iteration
BOOT_DELAY_MS == 2000
LOOP_SLEEP_MS == 10

\* status_t
STATUS_OK == "STATUS_OK"
STATUS_DOOR_OPEN == "STATUS_DOOR_OPEN"
STATUS_TOO_WARM == "STATUS_TOO_WARM"
STATUS_ERROR == "STATUS_ERROR"
status_t == {STATUS_OK, STATUS_DOOR_OPEN, STATUS_TOO_WARM, STATUS_ERROR}

\* --------------------------------------------------------------- bounds

\* Capacity of the ring buffer.  The source sets 32 (config.h:90); the model
\* is checked at a reduced capacity, which every claim is parametric in.
HISTORY_BUFFER_SIZE == 3

\* Number of sampling actions a run from boot performs.
MaxSamples == 5

\* A run that crosses the wrap of the millisecond counter ends this long
\* after the wrap (one telemetry period).
WrapHorizonMs == 5000

\* Clock values, shortly before the counter wraps, at which the runs that
\* cross the wrap start; written as residues (-250 is 2^32 - 250).
WrapStarts == {-1050, -250}

\* Readings the temperature sensor returns: a cool and a warm valid reading
\* (their mean is exactly TEMP_OK_MAX_C) and an out-of-range one.
Temps == {4, 10, 130}

\* Sampling actions in a run whose readings lie at the limits of the valid
\* range.
EdgeSamples == 2

\* Readings at and next to the limits of the valid range.
EdgeTemps == {TEMP_VALID_MIN_C - 1, TEMP_VALID_MIN_C,
              TEMP_VALID_MAX_C, TEMP_VALID_MAX_C + 1}

\* Last clock value of such a run.
EdgeClock == BOOT_DELAY_MS + EdgeSamples * SAMPLE_INTERVAL_MS - LOOP_SLEEP_MS

\* Sampling periods in a run of the loop under fair scheduling.
LiveSamples == 3

\* Last clock value of such a run.
LiveClock == BOOT_DELAY_MS + LiveSamples * SAMPLE_INTERVAL_MS - LOOP_SLEEP_MS

\* Last clock value of a run from boot: just before sample MaxSamples + 1.
MaxClock == BOOT_DELAY_MS + MaxSamples * SAMPLE_INTERVAL_MS - LOOP_SLEEP_MS

\* ---------------------------------------------------------------- state

VARIABLES
    clock,              \* to_ms_since_boot(get_absolute_time()), uint32
    pc,                 \* position in the main loop: "led", "app", "sleep"
    millis,             \* main's local: the timestamp of this iteration
    \* app_logic.c
    temp_history, history_head, history_count,
    current_temp, average_temp, door_open, current_status,
    last_sample_ms, last_telemetry_ms, first_update,
    \* led_status.c
    led_current_status, led_on, last_toggle_ms, error_flash_state,
    pin,                \* level of STATUS_LED_PIN
    out,                \* lines printed by the latest app_update call
    horizon,            \* last clock value of the run
    readings,           \* the values sensors_read_temperature_c returns
                        \* in this run
    \* history variables, read only by the properties
    pushes,             \* number of add_to_history calls since app_init
    pushed,             \* the last (at most HISTORY_BUFFER_SIZE) pushed values
    status_changed,     \* led_status_set changed the status since the last
                        \* led_status_update
    led_call,           \* the latest led_status_update call: whether it was
                        \* the first after a status change, and the output
                        \* level it found
    sampled_at,         \* timestamp of the latest sampling action
    reported_at,        \* timestamp of the latest telemetry line
    door_raw            \* what gpio_get returned, in order, to the latest
                        \* app_update call (empty if it did not read the pin)

appVars == <<temp_history, history_head, history_count, current_temp,
             average_temp, door_open, current_status, last_sample_ms,
             last_telemetry_ms, first_update>>
ledVars == <<led_current_status, led_on, last_toggle_ms, error_flash_state, pin>>
histVars == <<pushes, pushed, status_changed, led_call, sampled_at>>
callVars == <<reported_at, door_raw>>
runVars == <<horizon, readings>>
vars == <<clock, pc, millis, appVars, ledVars, out, runVars, histVars, callVars>>

\* ------------------------------------------------------------- helpers

RECURSIVE Factorial(_)
Factorial(n) == IF n <= 1 THEN 1 ELSE n * Factorial(n - 1)

\* average_temp is in units of 1/AvgUnit degree.
AvgUnit == Factorial(HISTORY_BUFFER_SIZE)

Int32Max == 2147483647

\* Mutant of U32SubGe: the direct comparison `a >= b + d` on uint32_t (the
\* sum wraps; unsigned order puts the residues below 0 above the others).
U32SubGe_direct(a, b, d) ==
    LET y == b + d
    IN  IF (a >= 0) = (y >= 0) THEN a >= y ELSE a < 0

\* The source's `(a - b) >= d` on uint32_t, for 0 <= d <= 2^31.  With
\* x = a - b on residues, the unsigned difference is x when x >= 0 and
\* x + 2^32 otherwise; the second comparison is written with 2^31 taken
\* from both sides.
U32SubGe(a, b, d) ==
    LET x == a - b
    IN  IF x >= 0 THEN x >= d
        ELSE (x + Int32Max) + 1 >= (d - Int32Max) - 1

\* ----------------------------------------------------------- sensors.c

\* Mutant of sensors_is_reading_valid: the limits themselves are rejected.
sensors_is_reading_valid_exclusive(temp_c) ==
    (temp_c > TEMP_VALID_MIN_C) /\ (temp_c < TEMP_VALID_MAX_C)

sensors_is_reading_valid(temp_c) ==
    (temp_c >= TEMP_VALID_MIN_C) /\ (temp_c <= TEMP_VALID_MAX_C)

\* -------------------------------------------------------- door_sensor.c

\* Mutant of door_sensor_loop: the loop stops sleeping one sample early.
RECURSIVE door_sensor_loop_sleeps_short(_, _, _, _)
door_sensor_loop_sleeps_short(samples, i, open_count, slept) ==
    IF i < DEBOUNCE_SAMPLES
    THEN door_sensor_loop_sleeps_short(samples, i + 1,
             IF samples[i + 1] THEN open_count + 1 ELSE open_count,
             IF i < DEBOUNCE_SAMPLES - 2
             THEN slept + DEBOUNCE_INTERVAL_MS ELSE slept)
    ELSE [open_count |-> open_count, slept |-> slept]

\* Mutant of door_sensor_loop: the loop sleeps after the last sample too.
RECURSIVE door_sensor_loop_sleeps_after_last(_, _, _, _)
door_sensor_loop_sleeps_after_last(samples, i, open_count, slept) ==
    IF i < DEBOUNCE_SAMPLES
    THEN door_sensor_loop_sleeps_after_last(samples, i + 1,
             IF samples[i + 1] THEN open_count + 1 ELSE open_count,
             slept + DEBOUNCE_INTERVAL_MS)
    ELSE [open_count |-> open_count, slept |-> slept]

\* The sampling loop of door_sensor_is_open: samples[i + 1] is what
\* gpio_get returns in iteration i; slept accumulates the sleep_ms calls.
RECURSIVE door_sensor_loop(_, _, _, _)
door_sensor_loop(samples, i, open_count, slept) ==
    IF i < DEBOUNCE_SAMPLES
    THEN door_sensor_loop(samples, i + 1,
             IF samples[i + 1] THEN open_count + 1 ELSE open_count,
             IF i < DEBOUNCE_SAMPLES - 1
             THEN slept + DEBOUNCE_INTERVAL_MS ELSE slept)
    ELSE [open_count |-> open_count, slept |-> slept]

\* Mutant of door_sensor_is_open: mixed readings give the current raw state
\* (the last sample) instead of the majority.
door_sensor_is_open_mixed_raw(samples) ==
    LET r == door_sensor_loop(samples, 0, 0, 0)
    IN  [open |-> IF r.open_count = DEBOUNCE_SAMPLES THEN TRUE
                  ELSE IF r.open_count = 0 THEN FALSE
                  ELSE samples[DEBOUNCE_SAMPLES],
         slept |-> r.slept]

\* The value door_sensor_is_open returns and the time it blocks.
door_sensor_is_open(samples) ==
    LET r == door_sensor_loop(samples, 0, 0, 0)
    IN  [open |-> IF r.open_count = DEBOUNCE_SAMPLES THEN TRUE
                  ELSE IF r.open_count = 0 THEN FALSE
                  ELSE r.open_count > (DEBOUNCE_SAMPLES \div 2),
         slept |-> r.slept]

RawSamples == [1..DEBOUNCE_SAMPLES -> BOOLEAN]

\* --------------------------------------------------------- led_status.c

set_led(on) ==
    /\ led_on' = on
    /\ pin' = on

\* Mutant of led_status_set: the pattern state is reset but the new status
\* is not stored.
led_status_set_no_store(status) ==
    IF status # led_current_status
    THEN /\ UNCHANGED <<led_current_status, led_on, pin>>
         /\ error_flash_state' = 0
         /\ last_toggle_ms' = 0
    ELSE UNCHANGED <<led_current_status, error_flash_state, last_toggle_ms,
                     led_on, pin>>

\* Mutant of led_status_set: the status change leaves the timestamp of the
\* old pattern in place.
led_status_set_keeps_timer(status) ==
    IF status # led_current_status
    THEN /\ led_current_status' = status
         /\ error_flash_state' = 0
         /\ UNCHANGED <<last_toggle_ms, led_on, pin>>
    ELSE UNCHANGED <<led_current_status, error_flash_state, last_toggle_ms,
                     led_on, pin>>

\* Mutant of led_status_set: a status change switches the output on at once.
led_status_set_drives_output(status) ==
    IF status # led_current_status
    THEN /\ led_current_status' = status
         /\ error_flash_state' = 0
         /\ last_toggle_ms' = 0
         /\ led_on' = TRUE
         /\ pin' = TRUE
    ELSE UNCHANGED <<led_current_status, error_flash_state, last_toggle_ms,
                     led_on, pin>>

\* Mutant of led_status_set: the pattern state is reset on every call.
led_status_set_always_resets(status) ==
    /\ led_current_status' = status
    /\ error_flash_state' = 0
    /\ last_toggle_ms' = 0
    /\ UNCHANGED <<led_on, pin>>

\* Mutant of led_status_set: a status change leaves the Error pattern's
\* phase where it was.
led_status_set_keeps_phase(status) ==
    IF status # led_current_status
    THEN /\ led_current_status' = status
         /\ last_toggle_ms' = 0
         /\ UNCHANGED <<error_flash_state, led_on, pin>>
    ELSE UNCHANGED <<led_current_status, error_flash_state, last_toggle_ms,
                     led_on, pin>>

led_status_set(status) ==
    IF status # led_current_status
    THEN /\ led_current_status' = status
         /\ error_flash_state' = 0
         /\ last_toggle_ms' = 0
         /\ UNCHANGED <<led_on, pin>>
    ELSE UNCHANGED <<led_current_status, error_flash_state, last_toggle_ms,
                     led_on, pin>>

\* Mutant of update_ok: the solid pattern initialises its timing like the
\* blinking ones.
update_ok_stamps(ms) ==
    /\ IF ~led_on THEN set_led(TRUE) ELSE UNCHANGED <<led_on, pin>>
    /\ last_toggle_ms' = IF last_toggle_ms = 0 THEN ms ELSE last_toggle_ms
    /\ UNCHANGED error_flash_state

update_ok(ms) ==
    /\ IF ~led_on THEN set_led(TRUE) ELSE UNCHANGED <<led_on, pin>>
    /\ UNCHANGED <<last_toggle_ms, error_flash_state>>

\* Mutant of update_blink: the first update after a status change does not
\* record its timestamp.
update_blink_never_armed(ms, period_ms) ==
    IF last_toggle_ms = 0
    THEN /\ set_led(TRUE)
         /\ UNCHANGED <<last_toggle_ms, error_flash_state>>
    ELSE LET half_period == period_ms \div 2
         IN  IF U32SubGe(ms, last_toggle_ms, half_period)
             THEN /\ set_led(~led_on)
                  /\ last_toggle_ms' = ms
                  /\ UNCHANGED error_flash_state
             ELSE UNCHANGED <<led_on, pin, last_toggle_ms, error_flash_state>>

update_blink(ms, period_ms) ==
    IF last_toggle_ms = 0
    THEN /\ last_toggle_ms' = ms
         /\ set_led(TRUE)
         /\ UNCHANGED error_flash_state
    ELSE LET half_period == period_ms \div 2
         IN  IF U32SubGe(ms, last_toggle_ms, half_period)
             THEN /\ set_led(~led_on)
                  /\ last_toggle_ms' = ms
                  /\ UNCHANGED error_flash_state
             ELSE UNCHANGED <<led_on, pin, last_toggle_ms, error_flash_state>>

update_door_open(ms) == update_blink(ms, LED_SLOW_BLINK_MS * 2)

update_too_warm(ms) == update_blink(ms, LED_FAST_BLINK_MS * 2)

update_error(ms) ==
    IF last_toggle_ms = 0
    THEN /\ last_toggle_ms' = ms
         /\ set_led(TRUE)
         /\ error_flash_state' = 0
    ELSE LET state_duration == IF error_flash_state = 5
                               THEN LED_ERROR_PAUSE_MS
                               ELSE LED_ERROR_FLASH_MS
         IN  IF U32SubGe(ms, last_toggle_ms, state_duration)
             THEN /\ error_flash_state' = (error_flash_state + 1) % 6
                  /\ last_toggle_ms' = ms
                  /\ set_led((error_flash_state' % 2) = 0)
             ELSE UNCHANGED <<led_on, pin, last_toggle_ms, error_flash_state>>

led_status_update(millis_since_boot) ==
    /\ CASE led_current_status = STATUS_OK -> update_ok(millis_since_boot)
         [] led_current_status = STATUS_DOOR_OPEN -> update_door_open(millis_since_boot)
         [] led_current_status = STATUS_TOO_WARM -> update_too_warm(millis_since_boot)
         [] led_current_status = STATUS_ERROR -> update_error(millis_since_boot)
    /\ UNCHANGED led_current_status

\* Mutant of led_status_to_string: the case of STATUS_TOO_WARM is missing.
led_status_to_string_missing_case(status) ==
    CASE status = STATUS_OK -> "OK"
      [] status = STATUS_DOOR_OPEN -> "DOOR_OPEN"
      [] status = STATUS_ERROR -> "ERROR"
      [] OTHER -> "UNKNOWN"

led_status_to_string(status) ==
    CASE status = STATUS_OK -> "OK"
      [] status = STATUS_DOOR_OPEN -> "DOOR_OPEN"
      [] status = STATUS_TOO_WARM -> "TOO_WARM"
      [] status = STATUS_ERROR -> "ERROR"
      [] OTHER -> "UNKNOWN"

\* ---------------------------------------------------------- app_logic.c

\* Mutant of add_to_history: the count stops one short of the capacity.
add_to_history_count_short(temp) ==
    /\ temp_history' = [temp_history EXCEPT ![history_head] = temp]
    /\ history_head' = (history_head + 1) % HISTORY_BUFFER_SIZE
    /\ history_count' = IF history_count < HISTORY_BUFFER_SIZE - 1
                        THEN history_count + 1 ELSE history_count

\* Mutant of add_to_history: a full window is overwritten at the newest
\* entry instead of the oldest.
add_to_history_evicts_newest(temp) ==
    LET at == IF history_count < HISTORY_BUFFER_SIZE THEN history_head
              ELSE (history_head + HISTORY_BUFFER_SIZE - 1) % HISTORY_BUFFER_SIZE
    IN  /\ temp_history' = [temp_history EXCEPT ![at] = temp]
        /\ history_head' = (history_head + 1) % HISTORY_BUFFER_SIZE
        /\ history_count' = IF history_count < HISTORY_BUFFER_SIZE
                            THEN history_count + 1 ELSE history_count

\* Mutant of add_to_history: the write index wraps one slot early.
add_to_history_wraps_early(temp) ==
    /\ temp_history' = [temp_history EXCEPT ![history_head] = temp]
    /\ history_head' = (history_head + 1) % (HISTORY_BUFFER_SIZE - 1)
    /\ history_count' = IF history_count < HISTORY_BUFFER_SIZE
                        THEN history_count + 1 ELSE history_count

\* Mutant of add_to_history: an out-of-range reading is not stored.
add_to_history_skips_invalid(temp) ==
    IF sensors_is_reading_valid(temp)
    THEN /\ temp_history' = [temp_history EXCEPT ![history_head] = temp]
         /\ history_head' = (history_head + 1) % HISTORY_BUFFER_SIZE
         /\ history_count' = IF history_count < HISTORY_BUFFER_SIZE
                             THEN history_count + 1 ELSE history_count
    ELSE UNCHANGED <<temp_history, history_head, history_count>>

add_to_history(temp) ==
    /\ temp_history' = [temp_history EXCEPT ![history_head] = temp]
    /\ history_head' = (history_head + 1) % HISTORY_BUFFER_SIZE
    /\ history_count' = IF history_count < HISTORY_BUFFER_SIZE
                        THEN history_count + 1 ELSE history_count

\* The summation loop of calculate_average: temp_history[i] for i < count.
RECURSIVE history_sum(_, _, _)
history_sum(hist, i, count) ==
    IF i < count THEN hist[i] + history_sum(hist, i + 1, count) ELSE 0

\* Mutant of calculate_average: the sum is always divided by the capacity
\* (zero padding during warm-up).
calculate_average_padded(hist, count) ==
    IF count = 0 THEN 0
    ELSE (history_sum(hist, 0, count) * AvgUnit) \div HISTORY_BUFFER_SIZE

calculate_average(hist, count) ==
    IF count = 0 THEN 0
    ELSE (history_sum(hist, 0, count) * AvgUnit) \div count

\* Mutant of determine_status: an Error status is latched.
determine_status_latched(temp, door, average) ==
    IF ~sensors_is_reading_valid(temp) \/ current_status = STATUS_ERROR
    THEN STATUS_ERROR
    ELSE IF door THEN STATUS_DOOR_OPEN
    ELSE IF average > TEMP_OK_MAX_C * AvgUnit THEN STATUS_TOO_WARM
    ELSE STATUS_OK

\* Mutant of determine_status: the door is checked before the validity.
determine_status_door_first(temp, door, average) ==
    IF door THEN STATUS_DOOR_OPEN
    ELSE IF ~sensors_is_reading_valid(temp) THEN STATUS_ERROR
    ELSE IF average > TEMP_OK_MAX_C * AvgUnit THEN STATUS_TOO_WARM
    ELSE STATUS_OK

\* Mutant of determine_status: the warm comparison is not strict.
determine_status_not_strict(temp, door, average) ==
    IF ~sensors_is_reading_valid(temp) THEN STATUS_ERROR
    ELSE IF door THEN STATUS_DOOR_OPEN
    ELSE IF average >= TEMP_OK_MAX_C * AvgUnit THEN STATUS_TOO_WARM
    ELSE STATUS_OK

determine_status(temp, door, average) ==
    IF ~sensors_is_reading_valid(temp) THEN STATUS_ERROR
    ELSE IF door THEN STATUS_DOOR_OPEN
    ELSE IF average > TEMP_OK_MAX_C * AvgUnit THEN STATUS_TOO_WARM
    ELSE STATUS_OK

\* printf's "%.1f" of the value num/den: sign, whole part, point and one
\* decimal, rounded to the nearest tenth.  (A value exactly halfway between
\* two tenths is rounded away from zero here; the readings modelled produce
\* no such value.)
fmt_1f(num, den) ==
    LET mag == IF num < 0 THEN -num ELSE num
        tenths == (20 * mag + den) \div (2 * den)
    IN  (IF num < 0 THEN "-" ELSE "") \o ToString(tenths \div 10)
            \o "." \o ToString(tenths % 10)

\* The text of print_telemetry's format string (without the newline), for
\* a reading t_num/t_den and an average a_num/a_den.
telemetry_line(t_num, t_den, a_num, a_den, door, status) ==
    "t=" \o fmt_1f(t_num, t_den) \o "C, avg=" \o fmt_1f(a_num, a_den)
         \o "C, door=" \o (IF door THEN "open" ELSE "closed")
         \o ", status=" \o led_status_to_string(status)

\* Mutant of print_telemetry: the reading is passed for both numbers.
print_telemetry_reading_twice(temp, average, door, status) ==
    [kind |-> "telemetry", t |-> temp, avg |-> temp * AvgUnit,
     door |-> IF door THEN "open" ELSE "closed",
     status |-> led_status_to_string(status),
     text |-> telemetry_line(temp, 1, temp, 1, door, status)]

\* The line print_telemetry writes: its text, and the arguments handed to
\* printf field by field.
print_telemetry(temp, average, door, status) ==
    [kind |-> "telemetry", t |-> temp, avg |-> average,
     door |-> IF door THEN "open" ELSE "closed",
     status |-> led_status_to_string(status),
     text |-> telemetry_line(temp, 1, average, AvgUnit, door, status)]

Banner == [kind |-> "banner"]

\* History variables of one sampling action.
NotePush(temp) ==
    /\ pushes' = pushes + 1
    /\ pushed' = LET s == Append(pushed, temp)
                 IN  IF Len(s) > HISTORY_BUFFER_SIZE THEN Tail(s) ELSE s
    /\ status_changed' = (status_changed \/ led_current_status' # led_current_status)
    /\ sampled_at' = millis
    /\ UNCHANGED led_call

\* app_update with its three decisions left open: whether the call is
\* treated as the first one, whether a sampling action is due and whether a
\* report is due.  The mutants of app_update below are instances of it.
app_update_variant(millis_since_boot, temp, samples, first, sample_due, report_due) ==
    /\ first_update' = FALSE
    /\ IF first \/ sample_due
       THEN /\ last_sample_ms' = millis_since_boot
            /\ current_temp' = temp
            /\ door_open' = door_sensor_is_open(samples).open
            /\ clock' = clock + door_sensor_is_open(samples).slept
            /\ add_to_history(current_temp')
            /\ average_temp' = calculate_average(temp_history', history_count')
            /\ current_status' = determine_status(current_temp', door_open',
                                                  average_temp')
            /\ led_status_set(current_status')
            /\ NotePush(temp)
            /\ door_raw' = samples
       ELSE /\ UNCHANGED <<last_sample_ms, current_temp, door_open, clock,
                           temp_history, history_head, history_count,
                           average_temp, current_status, led_current_status,
                           error_flash_state, last_toggle_ms, led_on, pin,
                           histVars>>
            /\ door_raw' = <<>>
    /\ IF first \/ report_due
       THEN /\ last_telemetry_ms' = millis_since_boot
            /\ out' = (IF first THEN <<Banner>> ELSE <<>>) \o
                         <<print_telemetry(current_temp', average_temp',
                                           door_open', current_status')>>
            /\ reported_at' = millis_since_boot
       ELSE /\ UNCHANGED <<last_telemetry_ms, reported_at>>
            /\ out' = <<>>

\* Mutant of app_update: no special case for the first call, which waits
\* for the periods like every other call.
app_update_no_first(millis_since_boot, temp, samples) ==
    app_update_variant(millis_since_boot, temp, samples, FALSE,
        U32SubGe(millis_since_boot, last_sample_ms, SAMPLE_INTERVAL_MS),
        U32SubGe(millis_since_boot, last_telemetry_ms, TELEMETRY_INTERVAL_MS))

\* Mutant of app_update: the report block comes before the sampling block,
\* so a line printed by a call that also samples carries the old values.
app_update_report_first(millis_since_boot, temp, samples) ==
    LET sample_due == first_update \/ U32SubGe(millis_since_boot, last_sample_ms,
                                               SAMPLE_INTERVAL_MS)
        report_due == first_update \/ U32SubGe(millis_since_boot, last_telemetry_ms,
                                               TELEMETRY_INTERVAL_MS)
    IN  /\ first_update' = FALSE
        /\ IF report_due
           THEN /\ last_telemetry_ms' = millis_since_boot
                /\ out' = (IF first_update THEN <<Banner>> ELSE <<>>) \o
                             <<print_telemetry(current_temp, average_temp,
                                               door_open, current_status)>>
                /\ reported_at' = millis_since_boot
           ELSE /\ UNCHANGED <<last_telemetry_ms, reported_at>>
                /\ out' = <<>>
        /\ IF sample_due
           THEN /\ last_sample_ms' = millis_since_boot
                /\ current_temp' = temp
                /\ door_open' = door_sensor_is_open(samples).open
                /\ clock' = clock + door_sensor_is_open(samples).slept
                /\ add_to_history(current_temp')
                /\ average_temp' = calculate_average(temp_history', history_count')
                /\ current_status' = determine_status(current_temp', door_open',
                                                      average_temp')
                /\ led_status_set(current_status')
                /\ NotePush(temp)
                /\ door_raw' = samples
           ELSE /\ UNCHANGED <<last_sample_ms, current_temp, door_open, clock,
                               temp_history, history_head, history_count,
                               average_temp, current_status, led_current_status,
                               error_flash_state, last_toggle_ms, led_on, pin,
                               histVars>>
                /\ door_raw' = <<>>

\* Mutant of app_update: a report that is due refreshes the values first.
app_update_sample_for_report(millis_since_boot, temp, samples) ==
    app_update_variant(millis_since_boot, temp, samples, first_update,
        (U32SubGe(millis_since_boot, last_sample_ms, SAMPLE_INTERVAL_MS)
           \/ U32SubGe(millis_since_boot, last_telemetry_ms, TELEMETRY_INTERVAL_MS)),
        U32SubGe(millis_since_boot, last_telemetry_ms, TELEMETRY_INTERVAL_MS))

\* Mutant of app_update: the sample comparison is strict (> for >=).
app_update_sample_strict(millis_since_boot, temp, samples) ==
    app_update_variant(millis_since_boot, temp, samples, first_update,
        U32SubGe(millis_since_boot, last_sample_ms, SAMPLE_INTERVAL_MS + 1),
        U32SubGe(millis_since_boot, last_telemetry_ms, TELEMETRY_INTERVAL_MS))

\* Mutant of app_update: the report check sits inside the sampling block.
app_update_report_in_sample(millis_since_boot, temp, samples) ==
    app_update_variant(millis_since_boot, temp, samples, first_update,
        U32SubGe(millis_since_boot, last_sample_ms, SAMPLE_INTERVAL_MS),
        /\ U32SubGe(millis_since_boot, last_sample_ms, SAMPLE_INTERVAL_MS)
        /\ U32SubGe(millis_since_boot, last_telemetry_ms, TELEMETRY_INTERVAL_MS))

\* app_update, with the reading the temperature sensor returns and the raw
\* pin samples the debounce loop sees should a sampling action fire.
app_update(millis_since_boot, temp, samples) ==
    IF first_update
    THEN /\ last_sample_ms' = millis_since_boot
         /\ last_telemetry_ms' = millis_since_boot
         /\ first_update' = FALSE
         /\ current_temp' = temp
         /\ add_to_history(current_temp')
         /\ average_temp' = calculate_average(temp_history', history_count')
         /\ door_open' = door_sensor_is_open(samples).open
         /\ clock' = clock + door_sensor_is_open(samples).slept
         /\ current_status' = determine_status(current_temp', door_open', average_temp')
         /\ led_status_set(current_status')
         /\ out' = <<Banner, print_telemetry(current_temp', average_temp',
                                              door_open', current_status')>>
         /\ NotePush(temp)
         /\ door_raw' = samples
         /\ reported_at' = millis_since_boot
    ELSE /\ UNCHANGED first_update
         /\ IF U32SubGe(millis_since_boot, last_sample_ms, SAMPLE_INTERVAL_MS)
            THEN /\ last_sample_ms' = millis_since_boot
                 /\ current_temp' = temp
                 /\ door_open' = door_sensor_is_open(samples).open
                 /\ clock' = clock + door_sensor_is_open(samples).slept
                 /\ add_to_history(current_temp')
                 /\ average_temp' = calculate_average(temp_history', history_count')
                 /\ current_status' = determine_status(current_temp', door_open',
                                                       average_temp')
                 /\ led_status_set(current_status')
                 /\ NotePush(temp)
                 /\ door_raw' = samples
            ELSE /\ UNCHANGED <<last_sample_ms, current_temp, door_open, clock,
                                temp_history, history_head, history_count,
                                average_temp, current_status, led_current_status,
                                error_flash_state, last_toggle_ms, led_on, pin,
                                histVars>>
                 /\ door_raw' = <<>>
         /\ IF U32SubGe(millis_since_boot, last_telemetry_ms, TELEMETRY_INTERVAL_MS)
            THEN /\ last_telemetry_ms' = millis_since_boot
                 /\ out' = <<print_telemetry(current_temp', average_temp',
                                             door_open', current_status')>>
                 /\ reported_at' = millis_since_boot
            ELSE /\ UNCHANGED <<last_telemetry_ms, reported_at>>
                 /\ out' = <<>>

\* --------------------------------------------------------------- main.c

\* Mutant of Init: led_status_init leaves the LED off.
Init_output_off ==
    /\ clock = BOOT_DELAY_MS
    /\ pc = "led"
    /\ millis = 0
    /\ temp_history = [i \in 0..(HISTORY_BUFFER_SIZE - 1) |-> 0]
    /\ history_head = 0
    /\ history_count = 0
    /\ current_temp = 0
    /\ average_temp = 0
    /\ door_open = FALSE
    /\ current_status = STATUS_OK
    /\ last_sample_ms = 0
    /\ last_telemetry_ms = 0
    /\ first_update = TRUE
    /\ led_current_status = STATUS_OK
    /\ led_on = FALSE
    /\ pin = FALSE
    /\ last_toggle_ms = 0
    /\ error_flash_state = 0
    /\ out = <<>>
    /\ horizon = MaxClock
    /\ readings = Temps
    /\ pushes = 0
    /\ pushed = <<>>
    /\ status_changed = FALSE
    /\ led_call = [after_change |-> FALSE, level_before |-> TRUE]
    /\ sampled_at = 0
    /\ reported_at = 0
    /\ door_raw = <<>>

\* State on entry to the main loop: after sleep_ms(2000), sensors_init,
\* door_sensor_init, led_status_init and app_init.
Init ==
    /\ clock = BOOT_DELAY_MS
    /\ pc = "led"
    /\ millis = 0
    /\ temp_history = [i \in 0..(HISTORY_BUFFER_SIZE - 1) |-> 0]
    /\ history_head = 0
    /\ history_count = 0
    /\ current_temp = 0
    /\ average_temp = 0
    /\ door_open = FALSE
    /\ current_status = STATUS_OK
    /\ last_sample_ms = 0
    /\ last_telemetry_ms = 0
    /\ first_update = TRUE
    /\ led_current_status = STATUS_OK
    /\ led_on = TRUE
    /\ pin = TRUE
    /\ last_toggle_ms = 0
    /\ error_flash_state = 0
    /\ out = <<>>
    /\ horizon = MaxClock
    /\ readings = Temps
    /\ pushes = 0
    /\ pushed = <<>>
    /\ status_changed = FALSE
    /\ led_call = [after_change |-> FALSE, level_before |-> TRUE]
    /\ sampled_at = 0
    /\ reported_at = 0
    /\ door_raw = <<>>

\* Mutant of LedStatusUpdate: the indicator is updated only in iterations
\* in which a sampling action is due.
LedStatusUpdate_when_sampling ==
    /\ pc = "led"
    /\ millis' = clock
    /\ IF first_update \/ U32SubGe(millis', last_sample_ms, SAMPLE_INTERVAL_MS)
       THEN led_status_update(millis')
       ELSE UNCHANGED ledVars
    /\ status_changed' = FALSE
    /\ led_call' = [after_change |-> status_changed, level_before |-> led_on]
    /\ pc' = "app"
    /\ UNCHANGED <<clock, appVars, out, runVars, pushes, pushed, sampled_at,
                   callVars>>

\* uint32_t millis = get_millis(); led_status_update(millis);
LedStatusUpdate ==
    /\ pc = "led"
    /\ millis' = clock
    /\ led_status_update(millis')
    /\ status_changed' = FALSE
    /\ led_call' = [after_change |-> status_changed, level_before |-> led_on]
    /\ pc' = "app"
    /\ UNCHANGED <<clock, appVars, out, runVars, pushes, pushed, sampled_at,
                   callVars>>

\* app_update(millis);
AppUpdate ==
    /\ pc = "app"
    /\ \E temp \in readings, samples \in RawSamples :
           app_update(millis, temp, samples)
    /\ pc' = "sleep"
    /\ UNCHANGED <<millis, runVars>>

\* sleep_ms(10);
SleepMs ==
    /\ pc = "sleep"
    /\ clock + LOOP_SLEEP_MS <= horizon
    /\ clock' = clock + LOOP_SLEEP_MS
    /\ pc' = "led"
    /\ UNCHANGED <<millis, appVars, ledVars, out, runVars, histVars, callVars>>

Next == LedStatusUpdate \/ AppUpdate \/ SleepMs

Spec == Init /\ [][Next]_vars

\* ------------------------------------------------- runs across the wrap

\* About one sampling action per SAMPLE_INTERVAL_MS over 2^32 ms of uptime.
LatePushes == Int32Max \div (SAMPLE_INTERVAL_MS \div 2)

\* A state the loop is in shortly before the counter wraps, after 2^32 - n
\* ms of uptime in which every reading was the same cool valid one and the
\* door stayed closed: the window is full of that reading, the status has
\* been STATUS_OK throughout (so the LED module is as led_status_init left
\* it), and a sampling action and a report are both due in this iteration.
\* On the device an iteration lasts the sleep plus the time the code takes,
\* so the residue of the timestamps drifts and any n occurs; WrapStarts
\* holds values of n from which the loop, run with exact sleeps, calls
\* led_status_update at timestamp 0 while a pattern changes level.
InitWrap ==
    /\ clock \in WrapStarts
    /\ pc = "led"
    /\ millis = 0
    /\ temp_history = [i \in 0..(HISTORY_BUFFER_SIZE - 1) |-> 4]
    /\ history_head = LatePushes % HISTORY_BUFFER_SIZE
    /\ history_count = HISTORY_BUFFER_SIZE
    /\ current_temp = 4
    /\ average_temp = 4 * AvgUnit
    /\ door_open = FALSE
    /\ current_status = STATUS_OK
    /\ last_sample_ms = clock - SAMPLE_INTERVAL_MS
    /\ last_telemetry_ms = clock - TELEMETRY_INTERVAL_MS
    /\ first_update = FALSE
    /\ led_current_status = STATUS_OK
    /\ led_on = TRUE
    /\ pin = TRUE
    /\ last_toggle_ms = 0
    /\ error_flash_state = 0
    /\ out = <<>>
    /\ horizon = WrapHorizonMs
    /\ readings = Temps
    /\ pushes = LatePushes
    /\ pushed = [i \in 1..HISTORY_BUFFER_SIZE |-> 4]
    /\ status_changed = FALSE
    /\ led_call = [after_change |-> FALSE, level_before |-> TRUE]
    /\ sampled_at = last_sample_ms
    /\ reported_at = last_telemetry_ms
    /\ door_raw = <<>>

SpecWrap == InitWrap /\ [][Next]_vars

\* ------------------------------------- readings at the validity limits

\* The state on entry to the main loop, with a sensor whose readings lie
\* at and next to the limits of the valid range.
InitEdge ==
    /\ clock = BOOT_DELAY_MS
    /\ pc = "led"
    /\ millis = 0
    /\ temp_history = [i \in 0..(HISTORY_BUFFER_SIZE - 1) |-> 0]
    /\ history_head = 0
    /\ history_count = 0
    /\ current_temp = 0
    /\ average_temp = 0
    /\ door_open = FALSE
    /\ current_status = STATUS_OK
    /\ last_sample_ms = 0
    /\ last_telemetry_ms = 0
    /\ first_update = TRUE
    /\ led_current_status = STATUS_OK
    /\ led_on = TRUE
    /\ pin = TRUE
    /\ last_toggle_ms = 0
    /\ error_flash_state = 0
    /\ out = <<>>
    /\ horizon = EdgeClock
    /\ readings = EdgeTemps
    /\ pushes = 0
    /\ pushed = <<>>
    /\ status_changed = FALSE
    /\ led_call = [after_change |-> FALSE, level_before |-> TRUE]
    /\ sampled_at = 0
    /\ reported_at = 0
    /\ door_raw = <<>>

SpecEdge == InitEdge /\ [][Next]_vars


\* ============================================================== claims

Min(a, b) == IF a < b THEN a ELSE b

RECURSIVE SumSeq(_)
SumSeq(q) == IF q = <<>> THEN 0 ELSE Head(q) + SumSeq(Tail(q))

\* Number of entries of the window (slots 0 .. history_count - 1) equal to v,
\* and number of entries of `pushed` equal to v.
HeldCount(v) == Cardinality({i \in 0..(history_count - 1) : temp_history[i] = v})
PushedCount(v) == Cardinality({j \in 1..Len(pushed) : pushed[j] = v})

\* C1: the status is the first match of the fixed priority order, read off
\* the stored reading, door state and average: Error if the reading is out
\* of the valid range; else DoorOpen if the door is open; else TooWarm if
\* the average exceeds the threshold; else Ok.  In particular an invalid
\* reading gives Error also with the door open and the average too high.
C1_PriorityOrder ==
    LET valid == current_temp >= TEMP_VALID_MIN_C /\ current_temp <= TEMP_VALID_MAX_C
        warm == average_temp > TEMP_OK_MAX_C * AvgUnit
    IN  /\ ~valid => current_status = STATUS_ERROR
        /\ valid /\ door_open => current_status = STATUS_DOOR_OPEN
        /\ valid /\ ~door_open /\ warm => current_status = STATUS_TOO_WARM
        /\ valid /\ ~door_open /\ ~warm => current_status = STATUS_OK

\* C1 witness: a sampling action has read an invalid value while the door
\* is open and the average is above the threshold.
C1_Witness ==
    /\ pushes >= 2
    /\ current_temp > TEMP_VALID_MAX_C
    /\ door_open
    /\ average_temp > TEMP_OK_MAX_C * AvgUnit
    /\ current_status = STATUS_ERROR

\* C2: the warm comparison is strict: the status is TooWarm only when the
\* average is strictly above TEMP_OK_MAX_C, and with a valid reading and
\* the door closed an average exactly at the threshold gives Ok.
C2_StrictThreshold ==
    /\ current_status = STATUS_TOO_WARM => average_temp > TEMP_OK_MAX_C * AvgUnit
    /\ ( /\ sensors_is_reading_valid(current_temp)
         /\ ~door_open
         /\ average_temp = TEMP_OK_MAX_C * AvgUnit ) => current_status = STATUS_OK

\* C2 witness: valid reading, door closed, average exactly at the threshold
\* after a sampling action.
C2_Witness ==
    /\ pushes >= 1
    /\ sensors_is_reading_valid(current_temp)
    /\ ~door_open
    /\ average_temp = TEMP_OK_MAX_C * AvgUnit
    /\ current_status = STATUS_OK

\* C3: after k pushes the average is the arithmetic mean of exactly the last
\* min(k, HISTORY_BUFFER_SIZE) pushed values (no zero padding during
\* warm-up); after a single push of v it is v; with no push it is 0.
C3_AverageIsMean ==
    /\ Len(pushed) = Min(pushes, HISTORY_BUFFER_SIZE)
    /\ average_temp * Len(pushed) = SumSeq(pushed) * AvgUnit
    /\ pushes = 0 => average_temp = 0
    /\ pushes = 1 => average_temp = pushed[1] * AvgUnit

\* C3 witness: the window is still warming up (fewer pushes than capacity,
\* more than one) and holds different values.
C3_Witness ==
    /\ pushes > 1
    /\ pushes < HISTORY_BUFFER_SIZE
    /\ pushed[1] # pushed[2]

\* C4: the sample count is in 0..HISTORY_BUFFER_SIZE, equals
\* min(k, HISTORY_BUFFER_SIZE) after k sampling actions, and never decreases.
C4_SampleCount ==
    /\ [](/\ history_count \in 0..HISTORY_BUFFER_SIZE
          /\ history_count = Min(pushes, HISTORY_BUFFER_SIZE))
    /\ [][history_count' >= history_count]_vars

\* C4 witness: more sampling actions than the capacity, count at capacity.
C4_Witness ==
    /\ pushes > HISTORY_BUFFER_SIZE
    /\ history_count = HISTORY_BUFFER_SIZE

\* C5: a push always succeeds and changes at most one slot; the window then
\* holds exactly the last min(k, HISTORY_BUFFER_SIZE) pushed values, so a
\* push into a full window has replaced the oldest entry and left the other
\* HISTORY_BUFFER_SIZE - 1 alone, and a push into a window that is not full
\* modifies no entry already held.
C5_PushEvictsOldest ==
    /\ [](\A v \in Temps : HeldCount(v) = PushedCount(v))
    /\ [][pushes' # pushes =>
            /\ pushes' = pushes + 1
            /\ pushed'[Len(pushed')] = current_temp'
            /\ Cardinality({i \in DOMAIN temp_history :
                              temp_history'[i] # temp_history[i]}) <= 1
            /\ history_count < HISTORY_BUFFER_SIZE =>
                 \A i \in 0..(history_count - 1) : temp_history'[i] = temp_history[i]
         ]_vars

\* C5 witness: the first push into a full window: the value pushed (130) is
\* in slot 0, which held the first value ever pushed, and the other slots
\* still hold what was pushed into them (4).
C5_Witness ==
    /\ pushes = HISTORY_BUFFER_SIZE + 1
    /\ temp_history[0] = 130
    /\ \A i \in 1..(HISTORY_BUFFER_SIZE - 1) : temp_history[i] = 4

\* ------------------------------------------------ indicator patterns

\* A step that is one led_status_update call, made in status st.
LedCall(st) == pc = "led" /\ pc' = "app" /\ led_current_status = st

\* Time from the last level or phase change to this led_status_update call.
\* On residues this is the true elapsed time, also across the wrap.
SinceToggle == millis' - last_toggle_ms

\* How long the Error pattern stays in phase p; the half-period of a blink.
PhaseDuration(p) == IF p = 5 THEN LED_ERROR_PAUSE_MS ELSE LED_ERROR_FLASH_MS
HalfPeriod(st) == IF st = STATUS_DOOR_OPEN THEN LED_SLOW_BLINK_MS ELSE LED_FAST_BLINK_MS

\* C6: with the status held at Error, the first update after the status
\* change shows (phase 0, on); every later update either leaves (phase,
\* level) alone or moves to the next pair of the cycle (0,on),(1,off),
\* (2,on),(3,off),(4,on),(5,off),(0,on),...; and after every update in Error
\* status the output is on exactly when the phase is even.
C6_ErrorSequence ==
    /\ []((pc = "app" /\ led_current_status = STATUS_ERROR) =>
            (led_on <=> (error_flash_state % 2 = 0)))
    /\ [][LedCall(STATUS_ERROR) =>
            IF status_changed
            THEN <<error_flash_state', led_on'>> = <<0, TRUE>>
            ELSE \/ <<error_flash_state', led_on'>> = <<error_flash_state, led_on>>
                 \/ <<error_flash_state', led_on'>> =
                      <<(error_flash_state + 1) % 6,
                        ((error_flash_state + 1) % 6) % 2 = 0>>
         ]_vars

\* C7: in Error status (after the first update of the pattern) a
\* led_status_update call advances the phase if and only if the time since
\* the last phase change is at least LED_ERROR_PAUSE_MS in phase 5 and at
\* least LED_ERROR_FLASH_MS in phases 0..4; otherwise the phase stays.
C7_ErrorPhaseTiming ==
    [][(LedCall(STATUS_ERROR) /\ ~status_changed) =>
         IF SinceToggle >= PhaseDuration(error_flash_state)
         THEN error_flash_state' = (error_flash_state + 1) % 6
         ELSE error_flash_state' = error_flash_state
      ]_vars

\* C8: the Error phase counter is always in 0..5, and one led_status_update
\* call moves it by at most one step, p to (p + 1) mod 6.
C8_ErrorPhaseStep ==
    /\ [](error_flash_state \in 0..5)
    /\ [][(pc = "led" /\ pc' = "app") =>
            error_flash_state' \in {error_flash_state, (error_flash_state + 1) % 6}
         ]_vars

\* C9: while the displayed status stays the same no led_status_update call
\* re-initialises the pattern: the Error phase returns to 0 only from phase
\* 5, and a blink pattern takes a fresh timestamp only when it inverts the
\* output after a full half-period.
C9_NoResetMidPattern ==
    [][((pc = "led" /\ pc' = "app") /\ ~status_changed) =>
         /\ (led_current_status = STATUS_ERROR /\ error_flash_state' = 0)
               => error_flash_state \in {0, 5}
         /\ ( /\ led_current_status \in {STATUS_DOOR_OPEN, STATUS_TOO_WARM}
              /\ last_toggle_ms' # last_toggle_ms )
               => /\ led_on' = ~led_on
                  /\ SinceToggle >= HalfPeriod(led_current_status)
      ]_vars

C11_OkIdempotent ==
    [][LedCall(STATUS_OK) =>
         /\ ledVars' = <<STATUS_OK, TRUE, last_toggle_ms, error_flash_state, TRUE>>
         /\ led_on => UNCHANGED ledVars
      ]_vars

\* C11 witness: the status changed to Ok while the old pattern had the
\* output off, and the update after the change has turned the output on.
C11_Witness ==
    /\ pc = "app"
    /\ led_call.after_change
    /\ ~led_call.level_before
    /\ led_current_status = STATUS_OK
    /\ led_on
    /\ last_toggle_ms = 0

\* C12: in DoorOpen status (half-period LED_SLOW_BLINK_MS) and TooWarm
\* status (half-period LED_FAST_BLINK_MS) the first led_status_update after
\* the reset forces the output on and records the timestamp; each later call
\* inverts the output and records the timestamp if and only if the time
\* since the last level change is at least the half-period, and otherwise
\* changes neither; so within a pattern the output changes level only when
\* a half-period has passed since the previous change.
C12_BlinkToggle ==
    [][(pc = "led" /\ pc' = "app"
          /\ led_current_status \in {STATUS_DOOR_OPEN, STATUS_TOO_WARM}) =>
         IF status_changed
         THEN led_on' /\ last_toggle_ms' = millis'
         ELSE /\ IF SinceToggle >= HalfPeriod(led_current_status)
                 THEN led_on' = ~led_on /\ last_toggle_ms' = millis'
                 ELSE UNCHANGED <<led_on, last_toggle_ms>>
              /\ led_on' # led_on => SinceToggle >= HalfPeriod(led_current_status)
      ]_vars

\* ------------------------------------------------------ periodic actions

\* A step that is one app_update call; the call takes a sampling action;
\* the number of telemetry lines the call printed.
AppCall == pc = "app" /\ pc' = "sleep"
Sampled == pushes' # pushes
ReportLines == Cardinality({i \in DOMAIN out' : out'[i].kind = "telemetry"})

\* One sampling action: one temperature read (stored as the current
\* reading), one debounced door read of DEBOUNCE_SAMPLES raw samples, one
\* push, and the resolved status handed to the indicator.
OneSamplingAction ==
    /\ pushes' = pushes + 1
    /\ current_temp' \in Temps
    /\ pushed'[Len(pushed')] = current_temp'
    /\ Len(door_raw') = DEBOUNCE_SAMPLES
    /\ led_current_status' = current_status'
    /\ sampled_at' = millis

\* C13: the first app_update call after app_init fires both actions
\* whatever its timestamp: exactly one sampling action and exactly one
\* report line (showing what was just sampled); afterwards the sample count
\* is 1 and both period timers hold the timestamp of that call.  No later
\* call is treated as the first.
C13_FirstUpdate ==
    /\ [](first_update <=> pushes = 0)
    /\ [][(AppCall /\ first_update) =>
            /\ OneSamplingAction
            /\ ReportLines = 1
            /\ out'[Len(out')] = print_telemetry(current_temp', average_temp',
                                                 door_open', current_status')
            /\ history_count' = 1
            /\ last_sample_ms' = millis
            /\ last_telemetry_ms' = millis
            /\ ~first_update'
         ]_vars

\* C13 witness: the first call has run at a timestamp at which the telemetry
\* period had not yet elapsed since boot, and has sampled and reported.
C13_Witness ==
    /\ pc = "sleep"
    /\ pushes = 1
    /\ history_count = 1
    /\ millis < TELEMETRY_INTERVAL_MS
    /\ last_sample_ms = millis
    /\ last_telemetry_ms = millis
    /\ Len(out) = 2
    /\ out[2].kind = "telemetry"

\* C14: after the first invocation an app_update call performs a sampling
\* action if and only if the time elapsed since the previous sampling action
\* is at least SAMPLE_INTERVAL_MS (so consecutive sampling actions are at
\* least that far apart); a call that samples performs exactly one
\* sampling action, and a call that does not leaves the readings, the
\* window, the status and the indicator's status alone and reads no pin.
C14_SamplePeriod ==
    [][(AppCall /\ ~first_update) =>
         /\ Sampled <=> (millis - sampled_at >= SAMPLE_INTERVAL_MS)
         /\ Sampled => OneSamplingAction
         /\ ~Sampled =>
               /\ door_raw' = <<>>
               /\ UNCHANGED <<temp_history, history_head, history_count,
                              current_temp, average_temp, door_open,
                              current_status, last_sample_ms, clock,
                              led_current_status, sampled_at>>
      ]_vars

\* C14 witness: the second sampling action of a run across the wrap: it
\* falls less than SAMPLE_INTERVAL_MS after the wrap, so the one before it
\* was taken before the wrap.
C14_Witness ==
    /\ pc = "sleep"
    /\ pushes = LatePushes + 2
    /\ Len(door_raw) = DEBOUNCE_SAMPLES
    /\ sampled_at = millis
    /\ millis > 0
    /\ millis < SAMPLE_INTERVAL_MS

\* C15: reporting runs on its own period: after the first invocation an
\* app_update call prints exactly one telemetry line (of the values current
\* at the end of the call) if and only if the time elapsed since the
\* previous report is at least TELEMETRY_INTERVAL_MS, whether or not the
\* call samples, and prints nothing otherwise; the report timer is stamped
\* by a report and by nothing else, so consecutive reports are at least
\* TELEMETRY_INTERVAL_MS apart.
C15_ReportPeriod ==
    [][(AppCall /\ ~first_update) =>
         /\ ReportLines = Len(out')
         /\ ReportLines = IF millis - reported_at >= TELEMETRY_INTERVAL_MS
                          THEN 1 ELSE 0
         /\ ReportLines = 1 =>
               /\ out'[1] = print_telemetry(current_temp', average_temp',
                                            door_open', current_status')
               /\ reported_at' = millis
         /\ last_telemetry_ms' = IF ReportLines = 1 THEN millis
                                 ELSE last_telemetry_ms
      ]_vars

\* C15 witness: a report printed by a call that took no sampling action,
\* after sampling actions that printed nothing, on a run across the wrap.
C15_Witness ==
    /\ pc = "sleep"
    /\ pushes >= LatePushes + 2
    /\ door_raw = <<>>
    /\ Len(out) = 1
    /\ reported_at = millis
    /\ millis > 0
    /\ sampled_at # millis

\* ------------------------------------------------------------ main loop

\* C16: every iteration of the main loop calls led_status_update exactly
\* once (the steps of an iteration come in the order led_status_update,
\* app_update, sleep_ms), with the timestamp of that iteration, whether or
\* not a sampling action is due; so after the call of every iteration the
\* pattern is up to date at that timestamp: the output is on in Ok status,
\* and otherwise less than the current half-period or phase duration has
\* passed since the last level or phase change.
C16_LedEveryIteration ==
    /\ [][/\ pc = "led" => pc' = "app"
          /\ pc = "app" => pc' = "sleep"
          /\ pc = "sleep" => pc' = "led"]_vars
    /\ [](pc = "app" =>
            /\ millis = clock
            /\ CASE led_current_status = STATUS_OK -> led_on
                 [] led_current_status = STATUS_ERROR ->
                      millis - last_toggle_ms < PhaseDuration(error_flash_state)
                 [] OTHER ->
                      millis - last_toggle_ms < HalfPeriod(led_current_status))

\* C16 witness: an iteration in which no sampling action is due and no status
\* change is pending, whose led_status_update call has inverted the output
\* of the fast blink.
C16_Witness ==
    /\ pc = "app"
    /\ ~first_update
    /\ millis - sampled_at < SAMPLE_INTERVAL_MS
    /\ ~led_call.after_change
    /\ led_current_status = STATUS_TOO_WARM
    /\ led_on # led_call.level_before
    /\ last_toggle_ms = millis

\* The time one door_sensor_is_open call sleeps.
DebounceBlockMs == (DEBOUNCE_SAMPLES - 1) * DEBOUNCE_INTERVAL_MS

\* C17: the time between two consecutive led_status_update calls is within
\* LOOP_SLEEP_MS .. LOOP_SLEEP_MS + (DEBOUNCE_SAMPLES - 1) *
\* DEBOUNCE_INTERVAL_MS (10..50): exactly the loop sleep after an iteration
\* that took no sampling action and the upper end after one that did; and
\* no single operation of the loop suspends for longer than the debounce
\* read does.
C17_UpdateInterval ==
    /\ [][(pc = "led" /\ pc' = "app" /\ ~first_update) =>
            /\ millis' - millis >= LOOP_SLEEP_MS
            /\ millis' - millis <= LOOP_SLEEP_MS + DebounceBlockMs
            /\ millis' - millis = IF door_raw = <<>> THEN LOOP_SLEEP_MS
                                  ELSE LOOP_SLEEP_MS + DebounceBlockMs
         ]_vars
    /\ [][clock' - clock \in {0, LOOP_SLEEP_MS, DebounceBlockMs}]_vars

\* C17 witness: the led_status_update call of the iteration after a sampling
\* action (not the first one), made 50 ms after the call before it.
C17_Witness ==
    /\ pc = "app"
    /\ pushes >= 2
    /\ Len(door_raw) = DEBOUNCE_SAMPLES
    /\ millis - sampled_at = LOOP_SLEEP_MS + DebounceBlockMs

\* ---------------------------------------------------------- door sensor

\* Number of raw samples of the latest door read that read open.
RawOpen == Cardinality({i \in DOMAIN door_raw : door_raw[i]})

C19_ConsecutiveAgree ==
    [][(AppCall /\ door_open' # door_open) =>
         /\ Len(door_raw') = DEBOUNCE_SAMPLES
         /\ \A i \in DOMAIN door_raw' : door_raw'[i] = door_open'
      ]_vars

\* C20: door_sensor_is_open returns the last confirmed state at once: while
\* app_update (its only caller) runs, no time passes and the pin is not
\* sampled.
C20_NonBlockingRead ==
    [][AppCall => (clock' = clock /\ door_raw' = <<>>)]_vars

C22_NoLatch ==
    [][(AppCall /\ Sampled) =>
         /\ current_status' = STATUS_ERROR <=>
               (current_temp' < TEMP_VALID_MIN_C \/ current_temp' > TEMP_VALID_MAX_C)
         /\ ( /\ current_status = STATUS_ERROR
              /\ current_temp' >= TEMP_VALID_MIN_C
              /\ current_temp' <= TEMP_VALID_MAX_C )
               => /\ current_status' # STATUS_ERROR
                  /\ led_current_status' # STATUS_ERROR
      ]_vars

\* C22 witness: a sampling action with a valid reading, right after one with
\* an invalid reading (which is still in the window), has left the status
\* TooWarm.
C22_Witness ==
    /\ pc = "sleep"
    /\ sampled_at = millis
    /\ Len(pushed) >= 2
    /\ pushed[Len(pushed) - 1] = 130
    /\ pushed[Len(pushed)] = 4
    /\ current_temp = 4
    /\ current_status = STATUS_TOO_WARM

\* C23: the status driving the indicator and the application's status are
\* the same value at every point between app_update calls, from startup on
\* (led_status_get() = app_get_status()), and a telemetry line shows that
\* same status, for Error as for any other status.
C23_SameStatus ==
    /\ led_current_status = current_status
    /\ \A i \in DOMAIN out :
          out[i].kind = "telemetry" =>
              out[i].status = led_status_to_string(led_current_status)

\* C23 witness: a report, later than the first, printed in Error status.
C23_Witness ==
    /\ pc = "sleep"
    /\ pushes >= 2
    /\ Len(out) = 1
    /\ out[1].status = "ERROR"
    /\ current_status = STATUS_ERROR
    /\ led_current_status = STATUS_ERROR

\* The telemetry lines the latest app_update call printed.
ReportsOut == {out[i] : i \in {j \in DOMAIN out : out[j].kind = "telemetry"}}

C25_ReportFormat ==
    /\ \A l \in ReportsOut :
          LET name == CASE current_status = STATUS_OK -> "OK"
                        [] current_status = STATUS_DOOR_OPEN -> "DOOR_OPEN"
                        [] current_status = STATUS_TOO_WARM -> "TOO_WARM"
                        [] current_status = STATUS_ERROR -> "ERROR"
          IN  /\ l.status = name
              /\ l.door = IF door_open THEN "open" ELSE "closed"
              /\ l.text = "t=" \o fmt_1f(current_temp, 1) \o "C, avg="
                             \o fmt_1f(average_temp, AvgUnit) \o "C, door="
                             \o l.door \o ", status=" \o name
    /\ telemetry_line(43, 10, 41, 10, FALSE, STATUS_OK)
           = "t=4.3C, avg=4.1C, door=closed, status=OK"
    /\ telemetry_line(43, 10, 41, 10, TRUE, STATUS_DOOR_OPEN)
           = "t=4.3C, avg=4.1C, door=open, status=DOOR_OPEN"
    /\ fmt_1f(4, 1) = "4.0"
    /\ fmt_1f(130, 1) = "130.0"
    /\ fmt_1f(704, 100) = "7.0"
    /\ fmt_1f(706, 100) = "7.1"
    /\ fmt_1f(-404, 10) = "-40.4"

\* C25 witness: the report after readings 4, 10 and 130 with the door open.
C25_Witness ==
    /\ pc = "sleep"
    /\ pushed = <<4, 10, 130>>
    /\ Len(out) = 1
    /\ out[1].text = "t=130.0C, avg=48.0C, door=open, status=ERROR"

\* ------------------------------------------------------- counter wrap

\* C26: the sample and report timers are wrap-safe: when the millisecond
\* counter wraps between an action and the time the next one is due, every
\* app_update call made in between, before or after the wrap, fires the
\* action if and only if the time elapsed since the previous one (the
\* difference modulo 2^32) is at least the interval, fires it once, and
\* restarts the timer at its own timestamp: no missed, early or repeated
\* firing.
C26_TimersWrapSafe ==
    [][(AppCall /\ ~first_update) =>
         /\ (sampled_at < 0 /\ sampled_at + SAMPLE_INTERVAL_MS >= 0) =>
               /\ Sampled <=> (millis - sampled_at >= SAMPLE_INTERVAL_MS)
               /\ pushes' \in {pushes, pushes + 1}
               /\ Sampled => (last_sample_ms' = millis /\ millis >= 0)
         /\ (reported_at < 0 /\ reported_at + TELEMETRY_INTERVAL_MS >= 0) =>
               /\ ReportLines = IF millis - reported_at >= TELEMETRY_INTERVAL_MS
                                THEN 1 ELSE 0
               /\ ReportLines = 1 => (last_telemetry_ms' = millis /\ millis >= 0)
      ]_vars

\* C26 witness: the counter wrapped after a sampling action and a report;
\* since then sampling has fired twice and the report, due less than one
\* telemetry period after the wrap, has just fired.
C26_Witness ==
    /\ pc = "sleep"
    /\ pushes = LatePushes + 3
    /\ last_sample_ms > 0
    /\ last_telemetry_ms > 0
    /\ last_telemetry_ms < TELEMETRY_INTERVAL_MS
    /\ reported_at = millis
    /\ Len(out) = 1

\* C27: the indicator's timing handles the wrap of the counter: with the
\* status unchanged, a led_status_update call made at or after the wrap
\* (timestamp 0 included) for a pattern whose last level or phase change
\* was made at or before the wrap continues the pattern: it changes the
\* level, the phase or the recorded timestamp if and only if the current
\* level or phase has lasted its configured duration, and then moves on to
\* the next level (blink) or the next phase (Error), never back to the
\* start of the pattern.
C27_PatternAcrossWrap ==
    [][( /\ pc = "led" /\ pc' = "app"
         /\ ~status_changed
         /\ led_current_status # STATUS_OK
         /\ last_toggle_ms <= 0
         /\ millis' >= 0 ) =>
         LET duration == IF led_current_status = STATUS_ERROR
                         THEN PhaseDuration(error_flash_state)
                         ELSE HalfPeriod(led_current_status)
         IN  IF SinceToggle >= duration
             THEN /\ last_toggle_ms' = millis'
                  /\ IF led_current_status = STATUS_ERROR
                     THEN /\ error_flash_state' = (error_flash_state + 1) % 6
                          /\ led_on' = (error_flash_state' % 2 = 0)
                     ELSE /\ led_on' = ~led_on
                          /\ UNCHANGED error_flash_state
             ELSE UNCHANGED <<led_on, pin, last_toggle_ms, error_flash_state>>
      ]_vars

\* --------------------------------------------------- startup and frames

\* C28: the state at startup is fixed: after initialisation and until the
\* first app_update call the door state is closed, the status is Ok, the
\* average is 0, the sample count is 0, and the indicator shows Ok with the
\* output on.
C28_StartupState ==
    first_update =>
        /\ door_open = FALSE
        /\ current_status = STATUS_OK
        /\ average_temp = 0
        /\ history_count = 0
        /\ led_current_status = STATUS_OK
        /\ led_on
        /\ pin

\* C28 witness: the first iteration has called led_status_update and is
\* about to make the first app_update call.
C28_Witness ==
    /\ pc = "app"
    /\ first_update
    /\ millis = BOOT_DELAY_MS
    /\ pushes = 0
    /\ led_on

\* C29: led_status_set only updates internal state: no app_update call
\* (the only caller of led_status_set) changes the led_on flag or the pin,
\* also when it changes the status; the output level changes only in a
\* led_status_update call.
C29_SetKeepsOutput ==
    /\ [][AppCall => UNCHANGED <<led_on, pin>>]_vars
    /\ [][(led_on' # led_on \/ pin' # pin) => (pc = "led" /\ pc' = "app")]_vars

\* C29 witness: a sampling action has changed the status while the output
\* was off, and the output is still off.
C29_Witness ==
    /\ pc = "sleep"
    /\ status_changed
    /\ last_toggle_ms = 0
    /\ ~led_on
    /\ ~pin

\* C30: led_status_set called with the status already displayed changes
\* nothing: a sampling action whose resolved status is the displayed one
\* leaves the phase counter, the last-change timestamp and the output level
\* as they were, so a running pattern is not restarted.
C30_SameStatusNoReset ==
    [][(AppCall /\ Sampled /\ current_status' = led_current_status) =>
         UNCHANGED ledVars
      ]_vars

\* C30 witness: a sampling action has re-asserted Error while the Error
\* pattern was in a later phase, which it still is.
C30_Witness ==
    /\ pc = "sleep"
    /\ sampled_at = millis
    /\ pushes >= 2
    /\ ~status_changed
    /\ led_current_status = STATUS_ERROR
    /\ error_flash_state = 5
    /\ last_toggle_ms # 0


\* ------------------------------------------------- the loop keeps running

\* The state on entry to the main loop, for runs in which the loop keeps
\* iterating.
InitLive ==
    /\ clock = BOOT_DELAY_MS
    /\ pc = "led"
    /\ millis = 0
    /\ temp_history = [i \in 0..(HISTORY_BUFFER_SIZE - 1) |-> 0]
    /\ history_head = 0
    /\ history_count = 0
    /\ current_temp = 0
    /\ average_temp = 0
    /\ door_open = FALSE
    /\ current_status = STATUS_OK
    /\ last_sample_ms = 0
    /\ last_telemetry_ms = 0
    /\ first_update = TRUE
    /\ led_current_status = STATUS_OK
    /\ led_on = TRUE
    /\ pin = TRUE
    /\ last_toggle_ms = 0
    /\ error_flash_state = 0
    /\ out = <<>>
    /\ horizon = LiveClock
    /\ readings = Temps
    /\ pushes = 0
    /\ pushed = <<>>
    /\ status_changed = FALSE
    /\ led_call = [after_change |-> FALSE, level_before |-> TRUE]
    /\ sampled_at = 0
    /\ reported_at = 0
    /\ door_raw = <<>>

\* main's `while (true)` has no exit and every call in its body returns
\* (door_sensor_is_open and sleep_ms block for a bounded time), so the loop
\* always takes its next step: weak fairness of Next.  Time is modelled up
\* to the horizon, where SleepMs is disabled and the run ends.
SpecLive == InitLive /\ [][Next]_vars /\ WF_vars(Next)

\* ------------------------------------------------------- validity range

\* C31: the valid range is inclusive at both ends: a sampling action whose
\* reading is exactly TEMP_VALID_MIN_C or TEMP_VALID_MAX_C does not give
\* STATUS_ERROR, and one whose reading is below the minimum or above the
\* maximum does.
C31_InclusiveRange ==
    [][(AppCall /\ Sampled) =>
          /\ current_temp' \in {TEMP_VALID_MIN_C, TEMP_VALID_MAX_C}
                 => current_status' # STATUS_ERROR
          /\ (current_status' = STATUS_ERROR)
                 <=> (current_temp' < TEMP_VALID_MIN_C
                        \/ current_temp' > TEMP_VALID_MAX_C)]_vars

\* Readings at both limits have been taken, the later one with the door
\* shut: the status is STATUS_TOO_WARM and not STATUS_ERROR.
C31_Witness ==
    /\ pc = "sleep"
    /\ pushed = <<TEMP_VALID_MIN_C, TEMP_VALID_MAX_C>>
    /\ current_temp = TEMP_VALID_MAX_C
    /\ ~door_open
    /\ current_status = STATUS_TOO_WARM
    /\ led_current_status = STATUS_TOO_WARM

\* ------------------------------------------------------------- progress

\* The longest time between the timestamps of two consecutive app_update
\* calls: the loop's sleep plus the time a sampling action blocks.
MaxCallGap == LOOP_SLEEP_MS + DebounceBlockMs

\* Another sampling action, or another report, is due before the run ends.
SamplePending ==
    first_update \/ sampled_at + SAMPLE_INTERVAL_MS + MaxCallGap <= horizon
ReportPending ==
    first_update \/ reported_at + TELEMETRY_INTERVAL_MS + MaxCallGap <= horizon

\* A sampling action (a report) happens at the first app_update call whose
\* timestamp is at least one interval after the previous one: not before
\* the interval has passed, and no later than the interval plus the longest
\* gap between two calls.
C32_FiresAtFirstDueCall ==
    [][(AppCall /\ ~first_update) =>
          /\ IF Sampled
             THEN /\ millis - sampled_at >= SAMPLE_INTERVAL_MS
                  /\ millis - sampled_at <= SAMPLE_INTERVAL_MS + MaxCallGap
                  /\ sampled_at' = millis
             ELSE /\ millis - sampled_at < SAMPLE_INTERVAL_MS
                  /\ sampled_at' = sampled_at
          /\ IF ReportLines = 1
             THEN /\ millis - reported_at >= TELEMETRY_INTERVAL_MS
                  /\ millis - reported_at <= TELEMETRY_INTERVAL_MS + MaxCallGap
                  /\ reported_at' = millis
             ELSE /\ ReportLines = 0
                  /\ millis - reported_at < TELEMETRY_INTERVAL_MS
                  /\ reported_at' = reported_at]_vars

\* C32: while the loop keeps iterating, sampling actions and reports keep
\* happening, each at the first app_update call whose timestamp is at least
\* one interval after the previous one, so that two consecutive ones are at
\* most the interval plus the longest gap between two calls apart: in every
\* run the loop goes on taking them until the next one would fall after the
\* end of the run.
C32_KeepsSamplingAndReporting ==
    /\ C32_FiresAtFirstDueCall
    /\ <>[](~SamplePending)
    /\ <>[](~ReportPending)

\* A third sampling action and a second report have been taken.
C32_Witness ==
    /\ pc = "sleep"
    /\ pushes = 3
    /\ sampled_at = BOOT_DELAY_MS + 2 * SAMPLE_INTERVAL_MS
    /\ reported_at = BOOT_DELAY_MS + TELEMETRY_INTERVAL_MS
    /\ ~ReportPending

\* The longest time the output keeps one level while a pattern is shown.
LongestPhase(st) ==
    IF st = STATUS_ERROR THEN LED_ERROR_PAUSE_MS ELSE HalfPeriod(st)

\* Enough of the run is left for the output to change level: the longest
\* phase, the call that starts it and the call that ends it.
RoomToChange(st) == clock + LongestPhase(st) + 2 * MaxCallGap <= horizon

\* C33: while the loop keeps iterating and the displayed status stays
\* STATUS_DOOR_OPEN, STATUS_TOO_WARM or STATUS_ERROR, the output level
\* keeps changing: from every state in which enough of the run is left,
\* the output leaves the level it has or the status changes.  While the
\* status is STATUS_OK the output is on in every state from the first
\* led_status_update after the status was set.
C33_OutputKeepsChanging ==
    /\ [](led_current_status = STATUS_OK /\ ~status_changed => led_on /\ pin)
    /\ \A st \in {STATUS_DOOR_OPEN, STATUS_TOO_WARM, STATUS_ERROR} :
         \A level \in BOOLEAN :
            (led_current_status = st /\ pin = level /\ RoomToChange(st))
               ~> (pin # level \/ led_current_status # st)

\* The door has been open since boot: the slow blink has switched the
\* output off once and on again, and no status change came in between.
C33_Witness ==
    /\ pc = "app"
    /\ pushes = 2
    /\ door_open
    /\ led_current_status = STATUS_DOOR_OPEN
    /\ ~led_call.after_change
    /\ ~led_call.level_before
    /\ pin
    /\ last_toggle_ms = millis
    /\ millis = BOOT_DELAY_MS + LOOP_SLEEP_MS + DebounceBlockMs
                 + 2 * LED_SLOW_BLINK_MS

\* ------------------------------------------------- faults in the window

\* The held entries that are out of range, and the sum of all held entries.
HeldInvalid ==
    {i \in 0..(history_count - 1) : ~sensors_is_reading_valid(temp_history[i])}
HeldSum == history_sum(temp_history, 0, history_count)

\* C34: a sampling action pushes its reading whether or not it is valid:
\* on an out-of-range reading the count grows (up to the capacity), the
\* reading is stored and the status is STATUS_ERROR; the reading is held,
\* and counted in the average, exactly until HISTORY_BUFFER_SIZE later
\* readings have been pushed.
C34_InvalidReadingsPushed ==
    /\ [][(AppCall /\ Sampled /\ ~sensors_is_reading_valid(current_temp')) =>
             /\ history_count' = Min(history_count + 1, HISTORY_BUFFER_SIZE)
             /\ temp_history'[history_head] = current_temp'
             /\ current_status' = STATUS_ERROR]_vars
    /\ [](/\ Cardinality(HeldInvalid)
                = Cardinality({j \in DOMAIN pushed :
                                  ~sensors_is_reading_valid(pushed[j])})
           /\ average_temp * history_count = HeldSum * AvgUnit)

\* The fault has cleared: the window is full, holds one out-of-range
\* reading and otherwise only readings below the threshold, the latest
\* reading is valid, the door is shut and the status is STATUS_TOO_WARM.
C34_Witness ==
    /\ pc = "sleep"
    /\ history_count = HISTORY_BUFFER_SIZE
    /\ Cardinality(HeldInvalid) = 1
    /\ \A i \in 0..(history_count - 1) :
          i \notin HeldInvalid => temp_history[i] <= TEMP_OK_MAX_C
    /\ sensors_is_reading_valid(current_temp)
    /\ ~door_open
    /\ current_status = STATUS_TOO_WARM

\* ------------------------------------------------ between sampling actions

\* What the accessors app_get_current_temp, app_get_average_temp,
\* app_is_door_open and app_get_status return, with the window behind the
\* average and the status the indicator displays.
sampledVars == <<current_temp, average_temp, door_open, current_status,
                 temp_history, history_count, led_current_status>>

\* C35: an app_update call at which the sample timer has not run out
\* leaves the latest reading, the average, the door state, the status, the
\* window, its count and the indicator's status as they were, and reads
\* neither sensor; in the whole loop these values change only in an
\* app_update call that takes a sampling action.
C35_FrozenBetweenSamples ==
    /\ [][(AppCall /\ ~first_update
              /\ ~U32SubGe(millis, last_sample_ms, SAMPLE_INTERVAL_MS)) =>
             /\ UNCHANGED sampledVars
             /\ door_raw' = <<>>
             /\ pushes' = pushes]_vars
    /\ [][sampledVars' # sampledVars => (AppCall /\ Sampled)]_vars

\* A report has been printed by a call that took no sampling action: its
\* line carries the values of the sampling action one second earlier.
C35_Witness ==
    /\ pc = "sleep"
    /\ reported_at = millis
    /\ sampled_at = millis - (TELEMETRY_INTERVAL_MS % SAMPLE_INTERVAL_MS)
    /\ door_raw = <<>>
    /\ pushes = 3
    /\ \E line \in ReportsOut : line.t = current_temp /\ line.t = pushed[3]

\* The telemetry lines printed by the call that is being taken.
ReportsOutNext == {out'[i] : i \in {j \in DOMAIN out' : out'[j].kind = "telemetry"}}

\* C36: an app_update call in which the sample timer and the report timer
\* have both run out samples first and reports second: the one line it
\* prints carries the reading, average, door state and status that its own
\* sampling action produced, the reading being the one it pushed.
C36_ReportAfterSample ==
    [][(/\ AppCall
        /\ ~first_update
        /\ U32SubGe(millis, last_sample_ms, SAMPLE_INTERVAL_MS)
        /\ U32SubGe(millis, last_telemetry_ms, TELEMETRY_INTERVAL_MS)) =>
          /\ Sampled
          /\ sampled_at' = millis
          /\ reported_at' = millis
          /\ ReportsOutNext = {print_telemetry(current_temp', average_temp',
                                               door_open', current_status')}
          /\ \A line \in ReportsOutNext :
                line.t = pushed'[Len(pushed')]]_vars

\* A call in which both were due has sampled an out-of-range reading with
\* the door open, after a long stretch of cool readings with the door
\* shut: its line shows the new reading, the new average, the open door
\* and the status Error.
C36_Witness ==
    /\ pc = "sleep"
    /\ pushes = LatePushes + 1
    /\ sampled_at = millis
    /\ reported_at = millis
    /\ current_temp = 130
    /\ door_open
    /\ \E line \in ReportsOut :
          /\ line.t = 130
          /\ line.avg = average_temp
          /\ line.avg # 4 * AvgUnit
          /\ line.door = "open"
          /\ line.status = led_status_to_string(STATUS_ERROR)

\* ------------------------------------------------- internal invariants

\* C37: the phase counter of the Error pattern is 0 whenever the displayed
\* status is not STATUS_ERROR.  It changes only in a led_status_update
\* call made while STATUS_ERROR is displayed, or in the app_update call
\* whose status change leaves STATUS_ERROR, which resets it to 0.
C37_PhaseZeroOutsideError ==
    /\ [](led_current_status # STATUS_ERROR => error_flash_state = 0)
    /\ [][error_flash_state' # error_flash_state =>
             \/ LedCall(STATUS_ERROR)
             \/ /\ AppCall
                /\ led_current_status = STATUS_ERROR
                /\ led_current_status' # STATUS_ERROR
                /\ error_flash_state' = 0]_vars

\* A sampling action has just left STATUS_ERROR while the Error pattern was
\* in its pause (phase 5, output off): the phase counter is back at 0.
C37_Witness ==
    /\ pc = "sleep"
    /\ sampled_at = millis
    /\ pushes = 2
    /\ pushed[1] = 130
    /\ current_temp = 4
    /\ status_changed
    /\ led_current_status = STATUS_TOO_WARM
    /\ ~led_on
    /\ last_toggle_ms = 0
    /\ error_flash_state = 0

\* C38: the write index of the ring buffer is in 0..HISTORY_BUFFER_SIZE-1
\* and is the number of pushes since app_init modulo HISTORY_BUFFER_SIZE;
\* while the window is not full it equals the sample count; once the
\* window is full it points at the oldest held entry, the entries after it
\* (wrapping round) being the later pushes in order.
C38_WriteIndex ==
    /\ history_head \in 0..(HISTORY_BUFFER_SIZE - 1)
    /\ history_head = pushes % HISTORY_BUFFER_SIZE
    /\ history_count = Min(pushes, HISTORY_BUFFER_SIZE)
    /\ history_count < HISTORY_BUFFER_SIZE => history_head = history_count
    /\ history_count = HISTORY_BUFFER_SIZE =>
          \A k \in 1..HISTORY_BUFFER_SIZE :
             temp_history[(history_head + k - 1) % HISTORY_BUFFER_SIZE] = pushed[k]

\* One more reading than the window holds has been pushed: the write
\* index has wrapped to slot 1, which holds the oldest entry, the only
\* out-of-range one.
C38_Witness ==
    /\ pushes = HISTORY_BUFFER_SIZE + 1
    /\ history_head = 1
    /\ temp_history[history_head] = 130
    /\ pushed[1] = 130
    /\ Cardinality(HeldInvalid) = 1
====
